---- MODULE Spec2Model ----
(***************************************************************************)
(* A model of yt/fields/magnetic_field.py: the three setup routines that   *)
(* populate a dataset's field registry (setup_magnetic_field_fields,       *)
(* setup_magnetic_field_aliases, setup_current_density_vector_fields), the *)
(* field functions they install, and the evaluation of those fields.       *)
(*                                                                         *)
(* A field name is a pair <<field type, identifier>>.  A unit is a string; *)
(* a value is an exact rational (n/d)*10^e in a unit, times a symbolic     *)
(* constant kn/kd (4*pi, mu_0, ... cannot be written as integers).         *)
(***************************************************************************)
EXTENDS Integers, Sequences, FiniteSets, TLC

VARIABLES
    ds,        \* registry.ds: geometry, axis order, unit system, on-disk fields
    registry,  \* the field registry: field name -> descriptor
    called,    \* the setup routines that have run on this registry
    last,      \* the last setup call: its arguments and the registry before it
    lastEval,  \* the last evaluation: field, context, result
    threads,   \* concurrent evaluations in flight: a call stack per thread
    curlIn,    \* input of a current-density evaluation on a 3-D grid
    curlOut    \* its output array

vars == <<ds, registry, called, last, lastEval, threads, curlIn, curlOut>>

(***************************************************************************)
(* Bounds of the model.                                                    *)
(***************************************************************************)
\* deepest chain of nested field requests an evaluation may build before
\* the call stack counts as exhausted
MaxDepth == 8

(***************************************************************************)
(* Integers and rationals.                                                 *)
(***************************************************************************)
Abs(a) == IF a < 0 THEN -a ELSE a

RECURSIVE GCD(_, _)
GCD(a, b) == IF b = 0 THEN a ELSE GCD(b, a % b)

LCM(a, b) == (a \div GCD(a, b)) * b

\* floor of the square root
ISqrt(a) == CHOOSE r \in 0..a : r * r <= a /\ (r + 1) * (r + 1) > a

(***************************************************************************)
(* Units and dimensions (the unit library is consumed, not built here).    *)
(***************************************************************************)
Dimensions(u) ==
    CASE u \in {"gauss", "kG"} -> "magnetic_field_cgs"
      [] u = "T"               -> "magnetic_field_mks"
      [] u = ""                -> "dimensionless"
      [] OTHER                 -> u

\* the power of ten of base units of its dimension that one unit holds
UnitScale(u) == IF u = "kG" THEN 3 ELSE 0

\* unit_system[key]
UnitSystemUnit(unit_system, key) ==
    CASE key = "magnetic_field_cgs" -> "gauss"
      [] key = "magnetic_field_mks" -> "T"
      [] OTHER                      -> unit_system \o ":" \o key

\* dimensions.current_mks in unit_system.base_units
HasCurrentMks(unit_system) == unit_system = "mks"

(***************************************************************************)
(* Values.                                                                 *)
(***************************************************************************)
Val(n, d, e, units, kn, kd, form) ==
    LET g == GCD(Abs(n), Abs(d))
    IN [n     |-> IF g = 0 THEN n ELSE n \div g,
        d     |-> IF g = 0 THEN d ELSE d \div g,
        e     |-> e,
        units |-> units, kn |-> kn, kd |-> kd, form |-> form]

NoValue == Val(0, 1, 0, "", "1", "1", "none")

RECURSIVE Pow10(_)
Pow10(k) == IF k = 0 THEN 1 ELSE 10 * Pow10(k - 1)

\* the numerator of v over v.d when the power of ten is lowered to e
AlignedN(v, e) == v.n * Pow10(v.e - e)

Least(a, b) == IF a < b THEN a ELSE b

\* product of two symbolic constants
KMul(a, b) == IF a = "1" THEN b ELSE IF b = "1" THEN a ELSE a \o "*" \o b

\* x.in_units(to): a rescale between units of one dimension
InUnits(v, to) ==
    Val(v.n, v.d, v.e + UnitScale(v.units) - UnitScale(to), to, v.kn, v.kd, v.form)

\* x.to_equivalent(to, equiv): a rescale when the dimensions agree; across
\* the Gaussian and SI conventions 1 T corresponds to 10^4 gauss
CanConvert(v, to, equiv) ==
    \/ Dimensions(v.units) = Dimensions(to)
    \/ /\ equiv = "SI"
       /\ Dimensions(v.units) = "magnetic_field_cgs"
       /\ Dimensions(to) = "magnetic_field_mks"
    \/ /\ equiv = "CGS"
       /\ Dimensions(v.units) = "magnetic_field_mks"
       /\ Dimensions(to) = "magnetic_field_cgs"

ToEquivalent(v, to, equiv) ==
    IF Dimensions(v.units) = Dimensions(to) THEN InUnits(v, to)
    ELSE IF equiv = "SI"
         THEN InUnits(Val(v.n, v.d, InUnits(v, "gauss").e - 4, "T",
                          v.kn, v.kd, v.form), to)
         ELSE InUnits(Val(v.n, v.d, InUnits(v, "T").e + 4, "gauss",
                          v.kn, v.kd, v.form), to)

(***************************************************************************)
(* Field names.                                                            *)
(***************************************************************************)
\* (ftype, "magnetic_field_%s" % ax)
MagName(ftype, ax) == <<ftype, "magnetic_field_" \o ax>>

NoName == <<"", "">>

XYZ == <<"x", "y", "z">>

\* The fields a dataset holds besides its magnetic components: the fluid
\* quantities and the index (grid) fields the field functions request.
FluidFields == {<<"gas", "pressure">>, <<"gas", "density">>,
                <<"gas", "velocity_magnitude">>}

IndexFields == {<<"index", "dx">>, <<"index", "dy">>, <<"index", "dz">>,
                <<"index", "r">>, <<"index", "z">>,
                <<"index", "spherical_theta">>, <<"index", "spherical_phi">>}

(***************************************************************************)
(* Descriptors.  A field function is a closure: the record holds the name  *)
(* of the function and the variables it captured when it was defined.      *)
(***************************************************************************)
NoConvert == [mode |-> "none", to |-> "", equiv |-> ""]

\* slice(start, stop, None); None is the empty sequence, n is <<n>>
Slice(start, stop) == [start |-> start, stop |-> stop]

NoStencil == [sl_left |-> Slice(<<>>, <<>>), sl_right |-> Slice(<<>>, <<>>),
              div_fac |-> 0]

\* kind: the function; ftype, axes, fd, convert, stencil: what it captured
Fn(kind, ftype, axes, fd, convert, stencil) ==
    [kind |-> kind, ftype |-> ftype, axes |-> axes, fd |-> fd,
     convert |-> convert, stencil |-> stencil]

\* function=None
NoneFn == Fn("None", "", <<>>, <<"", "">>, NoConvert, NoStencil)

\* an on-disk field has no computation rule: its value is read from the data
NativeFn == Fn("native", "", <<>>, <<"", "">>, NoConvert, NoStencil)

\* a function that captured only ftype (and the axis names)
Closure(kind, ftype, axes) == Fn(kind, ftype, axes, <<"", "">>, NoConvert, NoStencil)

ValidateParameter(p) == [cls |-> "ValidateParameter", arg |-> p, ghost_zones |-> 0]

ValidateSpatial(g) == [cls |-> "ValidateSpatial", arg |-> "", ghost_zones |-> g]

Descriptor(function, units, validators) ==
    [function |-> function, units |-> units, validators |-> validators,
     sampling_type |-> "cell"]

\* name in registry
Has(reg, name) == name \in DOMAIN reg

\* registry.add_field(name, function=..., units=..., validators=...):
\* the entry for name is replaced or created, every other entry is kept
AddField(reg, name, function, units, validators) ==
    [n \in DOMAIN reg \cup {name} |->
        IF n = name THEN Descriptor(function, units, validators) ELSE reg[n]]

(***************************************************************************)
(* The steps of a field function.  A function body is run against the      *)
(* values it has obtained so far (got): it either requests the next field  *)
(* (data[name]), returns a value, or raises.                               *)
(***************************************************************************)
Get(name) == [op |-> "get", name |-> name, value |-> NoValue, status |-> "ok"]

Return(v) == [op |-> "return", name |-> NoName, value |-> v, status |-> "ok"]

Raise(s) == [op |-> "raise", name |-> NoName, value |-> NoValue, status |-> s]

\* request names[1], names[2], ... in turn, then finish with done
GetAll(names, got, done) ==
    IF Len(got) < Len(names) THEN Get(names[Len(got) + 1]) ELSE done

SameDimensions(vs) ==
    \A i \in 1..Len(vs) : Dimensions(vs[i].units) = Dimensions(vs[1].units)

\* np.sqrt(a**2 + b**2 + c**2) of three values of one dimension, in the
\* unit of the first
Magnitude(a, b, c) ==
    LET b1 == InUnits(b, a.units)
        c1 == InUnits(c, a.units)
        l  == LCM(a.d, LCM(b1.d, c1.d))
        e  == Least(a.e, Least(b1.e, c1.e))
        sq(v) == (AlignedN(v, e) * (l \div v.d)) * (AlignedN(v, e) * (l \div v.d))
    IN Val(ISqrt(sq(a) + sq(b1) + sq(c1)), l, e, a.units, a.kn, a.kd, "array")

\* a / b; a zero denominator is kept: the result is non-finite, not an error
Quotient(a, b, units) ==
    Val(a.n * b.d, a.d * b.n, a.e - b.e, units, KMul(a.kn, b.kd), KMul(a.kd, b.kn),
        "array")

(***************************************************************************)
(* Values read from the data: the three magnetic components hold the       *)
(* context's sample, in the unit their descriptor declares.                *)
(***************************************************************************)
OnDiskNumber(dsv, name, ctx) ==
    CASE \E i \in 1..3 : dsv.native[i] = name ->
            ctx.sample[CHOOSE i \in 1..3 : dsv.native[i] = name]
      [] name = <<"gas", "pressure">>           -> 10
      [] name = <<"gas", "density">>            -> 4
      [] name = <<"gas", "velocity_magnitude">> -> 6
      [] name = <<"index", "r">>                -> 3
      [] name = <<"index", "z">>                -> 4
      [] OTHER                                  -> 1

OnDisk(desc, name, ctx, dsv) ==
    Return(Val(OnDiskNumber(dsv, name, ctx), 1, 0, desc.units, "1", "1", "array"))

(***************************************************************************)
(* The field functions of setup_magnetic_field_fields.                     *)
(***************************************************************************)
mag_factors == [magnetic_field_cgs |-> "4pi", magnetic_field_mks |-> "mu_0"]

\* the key taken from the dataset's unit system, not from the value
MagFactorKeyOfUnitSystem(B, dsv) ==
    IF HasCurrentMks(dsv.unit_system) THEN "magnetic_field_mks"
    ELSE "magnetic_field_cgs"

\* the key of the mag_factors lookup: B.units.dimensions
MagFactorKey(B, dsv) == Dimensions(B.units)

_magnetic_field_strength(f, got) ==
    IF Len(got) < 3 THEN Get(MagName(f.ftype, f.axes[Len(got) + 1]))
    ELSE IF ~SameDimensions(got) THEN Raise("UnitError")
    ELSE Return(Magnitude(got[1], got[2], got[3]))

_magnetic_energy(f, got, dsv) ==
    IF Len(got) = 0 THEN Get(<<f.ftype, "magnetic_field_strength">>)
    ELSE LET B == got[1]
         IN IF MagFactorKey(B, dsv) \notin DOMAIN mag_factors
            THEN Raise("DimensionMismatch")
            ELSE Return(Val(B.n * B.n, 2 * B.d * B.d, 2 * B.e, B.units \o "**2",
                            B.kn, KMul(B.kd, mag_factors[MagFactorKey(B, dsv)]),
                            "array"))

_plasma_beta(f, got) ==
    GetAll(<<<<f.ftype, "pressure">>, <<f.ftype, "magnetic_energy">>>>, got,
           Return(Quotient(got[1], got[2], "")))

\* the function requesting the field it defines
MagneticPressureOfItself(ftype) == <<ftype, "magnetic_pressure">>

\* the field requested by _magnetic_pressure
MagneticPressureSource(ftype) == <<ftype, "magnetic_energy">>

_magnetic_pressure(f, got) ==
    IF Len(got) = 0 THEN Get(MagneticPressureSource(f.ftype)) ELSE Return(got[1])

\* cartesian: data.ds.arr([B_x, B_y, B_z], d.units), then the angles; the
\* projection itself is get_sph_theta_component / get_sph_phi_component
CartesianB(ftype) ==
    <<MagName(ftype, "x"), MagName(ftype, "x"), MagName(ftype, "y"),
      MagName(ftype, "z")>>

_magnetic_field_poloidal_cartesian(f, got) ==
    GetAll(CartesianB(f.ftype)
             \o <<<<"index", "spherical_theta">>, <<"index", "spherical_phi">>>>,
           got,
           Return(Val(0, 1, 0, got[1].units, "1", "1", "get_sph_theta_component")))

_magnetic_field_toroidal_cartesian(f, got) ==
    GetAll(CartesianB(f.ftype) \o <<<<"index", "spherical_phi">>>>, got,
           Return(Val(0, 1, 0, got[1].units, "1", "1", "get_sph_phi_component")))

\* cylindrical: B_r*(r/d) + B_z*(z/d) with d = sqrt(r*r + z*z)
_magnetic_field_poloidal_cylindrical(f, got) ==
    GetAll(<<<<"index", "r">>, <<"index", "z">>, MagName(f.ftype, "r"),
             MagName(f.ftype, "z")>>, got,
           LET r  == got[1]
               z  == got[2]
               d  == ISqrt(r.n * r.n + z.n * z.n)
               Br == got[3]
               Bz == InUnits(got[4], got[3].units)
               e  == Least(Br.e, Bz.e)
           IN IF ~SameDimensions(<<got[3], got[4]>>) THEN Raise("UnitError")
              ELSE Return(Val(AlignedN(Br, e) * r.n * Bz.d + AlignedN(Bz, e) * z.n * Br.d,
                              Br.d * Bz.d * d, e, Br.units, "1", "1", "array")))

_magnetic_field_toroidal_cylindrical(f, got) ==
    IF Len(got) = 0 THEN Get(MagName(f.ftype, "theta")) ELSE Return(got[1])

_magnetic_field_poloidal_spherical(f, got) ==
    IF Len(got) = 0 THEN Get(MagName(f.ftype, "theta")) ELSE Return(got[1])

_magnetic_field_toroidal_spherical(f, got) ==
    IF Len(got) = 0 THEN Get(MagName(f.ftype, "phi")) ELSE Return(got[1])

\* B/np.sqrt(mag_factors[B.units.dimensions]*data[ftype,'density']): the
\* factor is looked up before the density is requested
_alfven_speed(f, got, dsv) ==
    IF Len(got) = 0 THEN Get(<<f.ftype, "magnetic_field_strength">>)
    ELSE IF MagFactorKey(got[1], dsv) \notin DOMAIN mag_factors
         THEN Raise("DimensionMismatch")
    ELSE IF Len(got) = 1 THEN Get(<<f.ftype, "density">>)
    ELSE LET B   == got[1]
             rho == got[2]
         IN Return(Val(B.n, B.d * ISqrt(rho.n), B.e,
                       B.units \o "/sqrt(" \o rho.units \o ")",
                       "1", "sqrt(" \o mag_factors[MagFactorKey(B, dsv)] \o ")",
                       "array"))

_mach_alfven(f, got) ==
    GetAll(<<<<f.ftype, "velocity_magnitude">>, <<f.ftype, "alfven_speed">>>>, got,
           Return(Quotient(got[1], got[2], "dimensionless")))

(***************************************************************************)
(* The field function of setup_magnetic_field_aliases.                     *)
(***************************************************************************)
\* convert = lambda x: x.in_units(to_units), or
\* convert = lambda x: x.to_equivalent(to_units, equiv)
Convert(convert, v) ==
    IF convert.mode = "in_units" THEN InUnits(v, convert.to)
    ELSE ToEquivalent(v, convert.to, convert.equiv)

ConvertFails(convert, v) ==
    IF convert.mode = "in_units" THEN Dimensions(v.units) # Dimensions(convert.to)
    ELSE ~CanConvert(v, convert.to, convert.equiv)

_mag_field(f, got) ==
    IF Len(got) = 0 THEN Get(f.fd)
    ELSE IF ConvertFails(f.convert, got[1]) THEN Raise("UnitError")
    ELSE Return(Convert(f.convert, got[1]))

(***************************************************************************)
(* The field functions of setup_current_density_vector_fields, as the      *)
(* registry sees them: the fields they request, in order, and the          *)
(* j_factors lookup.  The arithmetic on the grid is CurrentDensity below.  *)
(***************************************************************************)
j_factors == [magnetic_field_cgs |-> "4pi/c", magnetic_field_mks |-> "mu_0"]

\* the components and spacings each function reads: axis -> <<a, u, b, v>>
\* for d(B_a)/du - d(B_b)/dv
CurlTerms(ax) ==
    CASE ax = "x" -> <<"z", "y", "y", "z">>
      [] ax = "y" -> <<"x", "z", "z", "x">>
      [] ax = "z" -> <<"y", "x", "x", "y">>

CurrentDensityRequests(ftype, ax) ==
    LET t == CurlTerms(ax)
    IN <<MagName(ftype, t[1]), MagName(ftype, t[1]), <<"index", "d" \o t[2]>>,
         MagName(ftype, t[3]), MagName(ftype, t[3]), <<"index", "d" \o t[4]>>,
         MagName(ftype, "z")>>

\* on a sample that is uniform over the grid every difference vanishes
_current_density(f, got) ==
    GetAll(CurrentDensityRequests(f.ftype, f.axes[1]), got,
           IF ~SameDimensions(<<got[1], got[4]>>) THEN Raise("UnitError")
           ELSE IF Dimensions(got[1].units) \notin DOMAIN j_factors
                THEN Raise("DimensionMismatch")
           ELSE Return(Val(0, 1, 0, got[1].units \o "/" \o got[3].units, "1",
                           j_factors[Dimensions(got[1].units)], "array")))

\* the magnitude over the three components
_magnitude(f, got) ==
    IF Len(got) < 3 THEN Get(<<f.ftype, f.fd[2] \o "_" \o f.axes[Len(got) + 1]>>)
    ELSE Return(Magnitude(got[1], got[2], got[3]))

(***************************************************************************)
(* One step of the function a descriptor holds.                            *)
(***************************************************************************)
Body(desc, name, ctx, dsv, got) ==
    LET f == desc.function
        k == f.kind
    IN CASE k = "native"                    -> OnDisk(desc, name, ctx, dsv)
         [] k = "_magnetic_field_strength"  -> _magnetic_field_strength(f, got)
         [] k = "_magnetic_energy"          -> _magnetic_energy(f, got, dsv)
         [] k = "_plasma_beta"              -> _plasma_beta(f, got)
         [] k = "_magnetic_pressure"        -> _magnetic_pressure(f, got)
         [] k = "_magnetic_field_poloidal:cartesian" ->
                _magnetic_field_poloidal_cartesian(f, got)
         [] k = "_magnetic_field_toroidal:cartesian" ->
                _magnetic_field_toroidal_cartesian(f, got)
         [] k = "_magnetic_field_poloidal:cylindrical" ->
                _magnetic_field_poloidal_cylindrical(f, got)
         [] k = "_magnetic_field_toroidal:cylindrical" ->
                _magnetic_field_toroidal_cylindrical(f, got)
         [] k = "_magnetic_field_poloidal:spherical" ->
                _magnetic_field_poloidal_spherical(f, got)
         [] k = "_magnetic_field_toroidal:spherical" ->
                _magnetic_field_toroidal_spherical(f, got)
         [] k = "_alfven_speed"             -> _alfven_speed(f, got, dsv)
         [] k = "_mach_alfven"              -> _mach_alfven(f, got)
         [] k = "_mag_field"                -> _mag_field(f, got)
         [] k = "_current_density"          -> _current_density(f, got)
         [] k = "_magnitude"                -> _magnitude(f, got)

(***************************************************************************)
(* Evaluation: registry.evaluate(name, context).                           *)
(***************************************************************************)
Result(status, value, cause, requested, reg) ==
    [status |-> status, value |-> value, cause |-> cause, requested |-> requested,
     reg |-> reg]

Failure(status, cause, requested, reg) == Result(status, NoValue, cause, requested, reg)

\* a validator holds in a context
Validates(v, ctx) ==
    IF v.cls = "ValidateParameter" THEN v.arg \in ctx.parameters
    ELSE ctx.ghost_zones >= v.ghost_zones

Unmet(desc, ctx) ==
    {i \in 1..Len(desc.validators) : ~Validates(desc.validators[i], ctx)}

\* the first unmet validator, by its text
FirstUnmet(desc, ctx) ==
    LET v == desc.validators[CHOOSE i \in Unmet(desc, ctx) :
                                \A j \in Unmet(desc, ctx) : i <= j]
    IN v.cls \o "(" \o v.arg \o ")"

\* the checks made before the function is invoked; "ok" when all pass
Enter(reg, name, ctx) ==
    IF ~Has(reg, name) THEN "NotFound"
    ELSE IF Unmet(reg[name], ctx) # {} THEN "PreconditionFailed"
    ELSE IF reg[name].function.kind = "None" THEN "UndefinedForGeometry"
    ELSE "ok"

EnterCause(reg, name, ctx) ==
    IF Enter(reg, name, ctx) = "PreconditionFailed" THEN FirstUnmet(reg[name], ctx)
    ELSE ""

\* a function that stores what it computes as a field of the registry
MemoisingWrites(f) ==
    IF f.kind = "_magnetic_energy"
    THEN <<[name |-> <<f.ftype, "magnetic_energy_cached">>, function |-> NativeFn,
            units |-> ""]>>
    ELSE <<>>

\* The registry entries a field function installs when it is invoked: the
\* functions capture ftype, axis_names, fd, convert and the stencil, and
\* none of them holds the registry, so none installs anything.
RegistryWrites(f) == <<>>

RECURSIVE ApplyWrites(_, _)
ApplyWrites(reg, ws) ==
    IF ws = <<>> THEN reg
    ELSE ApplyWrites(AddField(reg, ws[1].name, ws[1].function, ws[1].units, <<>>),
                     Tail(ws))

\* what the function that requested `name` sees when that request failed
Propagated(name, r, requested) ==
    IF r.status = "StackExhausted"
    THEN Failure("StackExhausted", "", requested, r.reg)
    ELSE IF r.status = "NotFound" /\ ~Has(r.reg, name)
         THEN Failure("NotFound", "", requested, r.reg)
    ELSE Failure("PropagatedFailure",
                 IF r.status = "PropagatedFailure" THEN r.cause ELSE r.status,
                 requested, r.reg)

\* evaluate(name, context) at a depth of nested requests: the result, and
\* the registry the evaluation leaves
RECURSIVE EvaluateAt(_, _, _, _, _)
RECURSIVE Run(_, _, _, _, _, _, _, _)
EvaluateAt(reg, dsv, name, ctx, depth) ==
    IF depth > MaxDepth THEN Failure("StackExhausted", "", <<>>, reg)
    ELSE IF Enter(reg, name, ctx) # "ok"
         THEN Failure(Enter(reg, name, ctx), EnterCause(reg, name, ctx), <<>>, reg)
    ELSE Run(ApplyWrites(reg, RegistryWrites(reg[name].function)), dsv, name,
             reg[name], ctx, depth, <<>>, <<>>)

Run(reg, dsv, name, desc, ctx, depth, got, requested) ==
    LET step == Body(desc, name, ctx, dsv, got)
    IN CASE step.op = "return" -> Result("ok", step.value, "", requested, reg)
         [] step.op = "raise"  -> Failure(step.status, "", requested, reg)
         [] step.op = "get"    ->
              LET r == EvaluateAt(reg, dsv, step.name, ctx, depth + 1)
              IN IF r.status = "ok"
                 THEN Run(r.reg, dsv, name, desc, ctx, depth, Append(got, r.value),
                          Append(requested, step.name))
                 ELSE Propagated(step.name, r, Append(requested, step.name))

Evaluate(reg, dsv, name, ctx) == EvaluateAt(reg, dsv, name, ctx, 1)

\* what the caller gets back
Outcome(r) ==
    [status |-> r.status, value |-> r.value, cause |-> r.cause,
     requested |-> r.requested]

(***************************************************************************)
(* setup_magnetic_field_fields(registry, ftype, slice_info)                *)
(***************************************************************************)
\* what a setup routine leaves: the registry, and the exception it raised
\* ("" when it returned)
Returned(reg) == [reg |-> reg, raised |-> ""]

Raised(reg, exception) == [reg |-> reg, raised |-> exception]

\* the test inverted: "in" for "not in"
FirstAxisPresent(reg, ftype, axis_names) == Has(reg, MagName(ftype, axis_names[1]))

\* (ftype, "magnetic_field_%s" % axis_names[0]) not in registry
FirstAxisAbsent(reg, ftype, axis_names) == ~Has(reg, MagName(ftype, axis_names[1]))

\* the final else branch missing: the spherical functions serve every other
\* geometry
DecompositionWithoutElse(geometry, ftype) ==
    CASE geometry = "cartesian" ->
            [poloidal |-> Closure("_magnetic_field_poloidal:cartesian", ftype, <<>>),
             toroidal |-> Closure("_magnetic_field_toroidal:cartesian", ftype, <<>>)]
      [] geometry = "cylindrical" ->
            [poloidal |-> Closure("_magnetic_field_poloidal:cylindrical", ftype, <<>>),
             toroidal |-> Closure("_magnetic_field_toroidal:cylindrical", ftype, <<>>)]
      [] OTHER ->
            [poloidal |-> Closure("_magnetic_field_poloidal:spherical", ftype, <<>>),
             toroidal |-> Closure("_magnetic_field_toroidal:spherical", ftype, <<>>)]

\* the functions chosen by registry.ds.geometry
DecompositionFunctions(geometry, ftype) ==
    CASE geometry = "cartesian" ->
            [poloidal |-> Closure("_magnetic_field_poloidal:cartesian", ftype, <<>>),
             toroidal |-> Closure("_magnetic_field_toroidal:cartesian", ftype, <<>>)]
      [] geometry = "cylindrical" ->
            [poloidal |-> Closure("_magnetic_field_poloidal:cylindrical", ftype, <<>>),
             toroidal |-> Closure("_magnetic_field_toroidal:cylindrical", ftype, <<>>)]
      [] geometry = "spherical" ->
            [poloidal |-> Closure("_magnetic_field_poloidal:spherical", ftype, <<>>),
             toroidal |-> Closure("_magnetic_field_toroidal:spherical", ftype, <<>>)]
      [] OTHER ->
            [poloidal |-> NoneFn, toroidal |-> NoneFn]

\* the validator attached only where the formula reads "normal"
ValidatorsWhereNormalIsRead(geometry) ==
    IF geometry = "cartesian" THEN <<ValidateParameter("normal")>> ELSE <<>>

\* validators=[ValidateParameter("normal")], whatever the geometry
DecompositionValidators(geometry) == <<ValidateParameter("normal")>>

setup_magnetic_field_fields(reg, dsv, ftype) ==
    LET unit_system == dsv.unit_system
        axis_names  == dsv.axis_order
    IN IF FirstAxisAbsent(reg, ftype, axis_names) THEN Returned(reg)
       ELSE IF ~Has(reg, MagName(ftype, axis_names[1])) THEN Raised(reg, "KeyError")
       ELSE
       LET u  == reg[MagName(ftype, axis_names[1])].units
           fs == DecompositionFunctions(dsv.geometry, ftype)
           r1 == AddField(reg, <<ftype, "magnetic_field_strength">>,
                          Closure("_magnetic_field_strength", ftype, axis_names),
                          u, <<>>)
           r2 == AddField(r1, <<ftype, "magnetic_energy">>,
                          Closure("_magnetic_energy", ftype, <<>>),
                          UnitSystemUnit(unit_system, "pressure"), <<>>)
           r3 == AddField(r2, <<ftype, "plasma_beta">>,
                          Closure("_plasma_beta", ftype, <<>>), "", <<>>)
           r4 == AddField(r3, <<ftype, "magnetic_pressure">>,
                          Closure("_magnetic_pressure", ftype, <<>>),
                          UnitSystemUnit(unit_system, "pressure"), <<>>)
           r5 == AddField(r4, <<ftype, "magnetic_field_poloidal">>, fs.poloidal,
                          u, DecompositionValidators(dsv.geometry))
           r6 == AddField(r5, <<ftype, "magnetic_field_toroidal">>, fs.toroidal,
                          u, DecompositionValidators(dsv.geometry))
           r7 == AddField(r6, <<ftype, "alfven_speed">>,
                          Closure("_alfven_speed", ftype, <<>>),
                          UnitSystemUnit(unit_system, "velocity"), <<>>)
           r8 == AddField(r7, <<ftype, "mach_alfven">>,
                          Closure("_mach_alfven", ftype, <<>>), "dimensionless", <<>>)
       IN Returned(r8)

(***************************************************************************)
(* setup_magnetic_field_aliases(registry, ds_ftype, ds_fields, ftype)      *)
(***************************************************************************)
Min(a, b) == IF a < b THEN a ELSE b

\* the two branches of the base-unit test exchanged
AliasConversionSwapped(unit_system, from_units) ==
    LET to_units == IF HasCurrentMks(unit_system)
                    THEN UnitSystemUnit(unit_system, "magnetic_field_cgs")
                    ELSE UnitSystemUnit(unit_system, "magnetic_field_mks")
        equiv    == IF HasCurrentMks(unit_system) THEN "CGS" ELSE "SI"
    IN IF Dimensions(from_units) = Dimensions(to_units)
       THEN [mode |-> "in_units", to |-> to_units, equiv |-> ""]
       ELSE [mode |-> "to_equivalent", to |-> to_units, equiv |-> equiv]

\* to_units and equiv, by the unit system's base units; then the rule, by
\* the dimensions of the first native field's units
AliasConversion(unit_system, from_units) ==
    LET to_units == IF HasCurrentMks(unit_system)
                    THEN UnitSystemUnit(unit_system, "magnetic_field_mks")
                    ELSE UnitSystemUnit(unit_system, "magnetic_field_cgs")
        equiv    == IF HasCurrentMks(unit_system) THEN "SI" ELSE "CGS"
    IN IF Dimensions(from_units) = Dimensions(to_units)
       THEN [mode |-> "in_units", to |-> to_units, equiv |-> ""]
       ELSE [mode |-> "to_equivalent", to |-> to_units, equiv |-> equiv]

\* the closure reading the loop variable when it runs: every alias wraps
\* the last field
LateBoundField(fields, i) == fields[Len(fields)]

\* the native field the i-th alias wraps: zip(axis_order, ds_fields) pairs
\* the i-th axis with the i-th field, and mag_field(fd) binds it
AliasedField(fields, i) == fields[i]

\* def mag_field(fd): the closure over fd and convert
mag_field(fd, convert) == Fn("_mag_field", "", <<>>, fd, convert, NoStencil)

\* ds_fields[0] not in registry
FirstNativeAbsent(reg, fields) == ~Has(reg, fields[1])

RECURSIVE AliasLoop(_, _, _, _, _, _)
AliasLoop(reg, dsv, fields, ftype, convert, i) ==
    IF i > Min(Len(dsv.axis_order), Len(fields)) THEN reg
    ELSE AliasLoop(AddField(reg, MagName(ftype, dsv.axis_order[i]),
                            mag_field(AliasedField(fields, i), convert),
                            UnitSystemUnit(dsv.unit_system, Dimensions(convert.to)),
                            <<>>),
                   dsv, fields, ftype, convert, i + 1)

setup_magnetic_field_aliases(reg, dsv, ds_ftype, ds_fields, ftype) ==
    LET fields == [i \in 1..Len(ds_fields) |-> <<ds_ftype, ds_fields[i]>>]
    IN IF FirstNativeAbsent(reg, fields) THEN Returned(reg)
       ELSE IF ~Has(reg, fields[1]) THEN Raised(reg, "KeyError")
       ELSE Returned(AliasLoop(reg, dsv, fields, ftype,
                               AliasConversion(dsv.unit_system, reg[fields[1]].units),
                               1))

(***************************************************************************)
(* setup_current_density_vector_fields(registry, ftype, slice_info)        *)
(***************************************************************************)
\* a one-sided difference as the default
OneSidedStencil == [sl_left |-> Slice(<<>>, <<-2>>), sl_right |-> Slice(<<1>>, <<-1>>),
                    div_fac |-> 1]

\* slice_info: None is <<>>, a tuple (left, right, factor) is <<stencil>>
DefaultStencil == [sl_left |-> Slice(<<>>, <<-2>>), sl_right |-> Slice(<<2>>, <<>>),
                   div_fac |-> 2]

Stencil(slice_info) == IF slice_info = <<>> THEN DefaultStencil ELSE slice_info[1]

sl_center == Slice(<<1>>, <<-1>>)

curl_validators == <<ValidateSpatial(1)>>

CurrentDensityUnit(unit_system) ==
    IF HasCurrentMks(unit_system)
    THEN UnitSystemUnit(unit_system, "current_mks") \o "/"
            \o UnitSystemUnit(unit_system, "length") \o "**2"
    ELSE UnitSystemUnit(unit_system, "current_cgs") \o "/"
            \o UnitSystemUnit(unit_system, "length") \o "**2"

\* create_magnitude_field(registry, "current_density", units, ftype=ftype,
\*                        slice_info=slice_info, validators=curl_validators)
create_magnitude_field(reg, basename, field_units, ftype, validators) ==
    AddField(reg, <<ftype, basename \o "_magnitude">>,
             Fn("_magnitude", ftype, XYZ, <<ftype, basename>>, NoConvert, NoStencil),
             field_units, validators)

\* the loop with a guard: a component is installed only where the three
\* magnetic components are present
RECURSIVE GuardedCurrentDensityLoop(_, _, _, _, _)
GuardedCurrentDensityLoop(reg, dsv, ftype, stencil, i) ==
    IF i > Len(XYZ) \/ \E j \in 1..3 : ~Has(reg, MagName(ftype, XYZ[j])) THEN reg
    ELSE GuardedCurrentDensityLoop(
            AddField(reg, <<ftype, "current_density_" \o XYZ[i]>>,
                     Fn("_current_density", ftype, <<XYZ[i]>>, <<"", "">>,
                        NoConvert, stencil),
                     CurrentDensityUnit(dsv.unit_system), curl_validators),
            dsv, ftype, stencil, i + 1)

RECURSIVE CurrentDensityLoop(_, _, _, _, _)
CurrentDensityLoop(reg, dsv, ftype, stencil, i) ==
    IF i > Len(XYZ) THEN reg
    ELSE CurrentDensityLoop(
            AddField(reg, <<ftype, "current_density_" \o XYZ[i]>>,
                     Fn("_current_density", ftype, <<XYZ[i]>>, <<"", "">>,
                        NoConvert, stencil),
                     CurrentDensityUnit(dsv.unit_system), curl_validators),
            dsv, ftype, stencil, i + 1)

setup_current_density_vector_fields(reg, dsv, ftype, slice_info) ==
    Returned(create_magnitude_field(
                CurrentDensityLoop(reg, dsv, ftype, Stencil(slice_info), 1),
                "current_density", CurrentDensityUnit(dsv.unit_system), ftype,
                curl_validators))

(***************************************************************************)
(* Datasets.                                                               *)
(***************************************************************************)
\* geometry and axis order, as the coordinate handlers pair them
Coordinates ==
    {[geometry |-> "cartesian",   axis_order |-> <<"x", "y", "z">>],
     [geometry |-> "cylindrical", axis_order |-> <<"r", "z", "theta">>],
     [geometry |-> "spherical",   axis_order |-> <<"r", "theta", "phi">>],
     [geometry |-> "geographic",
      axis_order |-> <<"latitude", "longitude", "altitude">>]}

UnitSystems == {"cgs", "mks"}

\* the identifiers of the magnetic fields a frontend reads from disk
FrontendFields == <<"Bx", "By", "Bz">>

GenericFields(axis_order) == [i \in 1..3 |-> "magnetic_field_" \o axis_order[i]]

\* the on-disk magnetic fields: under the frontend's type and names, or
\* already under the generic type and names
NativeFamilies(axis_order) ==
    {[i \in 1..3 |-> <<"enzo", FrontendFields[i]>>],
     [i \in 1..3 |-> <<"gas", GenericFields(axis_order)[i]>>]}

NativeUnits == {"gauss", "kG", "T", ""}

\* which of the three components the dataset holds
Presences == {{1, 2, 3}, {1}, {2, 3}, {}}

UnitsOf(name) ==
    CASE name[1] = "index" /\ name[2] \in {"spherical_theta", "spherical_phi"} -> ""
      [] name[1] = "index" -> "cm"
      [] name = <<"gas", "pressure">> -> "dyne/cm**2"
      [] name = <<"gas", "density">> -> "g/cm**3"
      [] OTHER -> "cm/s"

\* the registry of a dataset before any setup routine has run on it
PrimitiveRegistry(native, present, units) ==
    [n \in {native[i] : i \in present} \cup FluidFields \cup IndexFields |->
        IF n \in {native[i] : i \in present}
        THEN Descriptor(NativeFn, units, <<>>)
        ELSE Descriptor(NativeFn, UnitsOf(n), <<>>)]

(***************************************************************************)
(* Contexts of evaluation.                                                 *)
(***************************************************************************)
Samples == {<<3, 4, 0>>}

Contexts ==
    [parameters : {{}, {"normal"}}, ghost_zones : {0, 1}, sample : Samples]

NoContext == [parameters |-> {}, ghost_zones |-> 0, sample |-> <<0, 0, 0>>]

NoOutcome == [status |-> "none", value |-> NoValue, cause |-> "", requested |-> <<>>]

NoEval == [name |-> NoName, ctx |-> NoContext, result |-> NoOutcome]

\* the fields a caller asks for: the derived fields, and one that no
\* routine installs
Missing == <<"gas", "vorticity_x">>

Targets(reg) == {n \in DOMAIN reg : reg[n].function # NativeFn} \cup {Missing}

(***************************************************************************)
(* The state machine: the setup phase of one dataset, then evaluations.    *)
(***************************************************************************)
FTypes == {"gas"}

DsFTypes == {"gas", "enzo"}

SliceInfos ==
    {<<>>,
     <<[sl_left |-> Slice(<<>>, <<-2>>), sl_right |-> Slice(<<1>>, <<-1>>),
        div_fac |-> 1]>>}

Call(op, ftype, ds_ftype, ds_fields, slice_info, before, raised) ==
    [op |-> op, ftype |-> ftype, ds_ftype |-> ds_ftype, ds_fields |-> ds_fields,
     slice_info |-> slice_info, before |-> before, raised |-> raised]

NoThreads == <<>>

NoCurl == [shape |-> <<0, 0, 0>>]

NoCurlResult == [ax |-> "", status |-> "none", factor |-> "", values |-> <<>>]

Init ==
    /\ \E c \in Coordinates, us \in UnitSystems, u \in NativeUnits, p \in Presences :
         \E native \in NativeFamilies(c.axis_order) :
            /\ ds = [geometry |-> c.geometry, axis_order |-> c.axis_order,
                     unit_system |-> us, native |-> native]
            /\ registry = PrimitiveRegistry(native, p, u)
    /\ called = {}
    /\ last = Call("none", "", "", <<>>, <<>>, registry, "")
    /\ lastEval = NoEval
    /\ threads = NoThreads
    /\ curlIn = NoCurl
    /\ curlOut = NoCurlResult

CallSetupMagneticFieldFields ==
    /\ "setup_magnetic_field_fields" \notin called
    /\ \E ftype \in FTypes :
         LET res == setup_magnetic_field_fields(registry, ds, ftype)
         IN /\ registry' = res.reg
            /\ last' = Call("setup_magnetic_field_fields", ftype, "", <<>>, <<>>,
                            registry, res.raised)
    /\ called' = called \cup {"setup_magnetic_field_fields"}
    /\ lastEval' = NoEval
    /\ UNCHANGED <<ds, threads, curlIn, curlOut>>

\* called from the frontend's setup_fluid_fields, before the plugins load
CallSetupMagneticFieldAliases ==
    /\ called = {}
    /\ \E ftype \in FTypes, ds_ftype \in DsFTypes,
          ds_fields \in {FrontendFields, GenericFields(ds.axis_order)} :
         LET res == setup_magnetic_field_aliases(registry, ds, ds_ftype, ds_fields,
                                                 ftype)
         IN /\ registry' = res.reg
            /\ last' = Call("setup_magnetic_field_aliases", ftype, ds_ftype,
                            ds_fields, <<>>, registry, res.raised)
    /\ called' = called \cup {"setup_magnetic_field_aliases"}
    /\ lastEval' = NoEval
    /\ UNCHANGED <<ds, threads, curlIn, curlOut>>

CallSetupCurrentDensityVectorFields ==
    /\ "setup_current_density_vector_fields" \notin called
    /\ \E ftype \in FTypes, slice_info \in SliceInfos :
         LET res == setup_current_density_vector_fields(registry, ds, ftype,
                                                        slice_info)
         IN /\ registry' = res.reg
            /\ last' = Call("setup_current_density_vector_fields", ftype, "", <<>>,
                            slice_info, registry, res.raised)
    /\ called' = called \cup {"setup_current_density_vector_fields"}
    /\ lastEval' = NoEval
    /\ UNCHANGED <<ds, threads, curlIn, curlOut>>

\* one caller: it evaluates a field, takes the result, and may go on
CallEvaluate ==
    /\ lastEval = NoEval
    /\ \E name \in Targets(registry), ctx \in Contexts :
         LET r == Evaluate(registry, ds, name, ctx)
         IN /\ registry' = r.reg
            /\ lastEval' = [name |-> name, ctx |-> ctx, result |-> Outcome(r)]
    /\ UNCHANGED <<ds, called, last, threads, curlIn, curlOut>>

ReturnEvaluate ==
    /\ lastEval # NoEval
    /\ lastEval' = NoEval
    /\ UNCHANGED <<ds, registry, called, last, threads, curlIn, curlOut>>

Next ==
    \/ CallSetupMagneticFieldFields
    \/ CallSetupMagneticFieldAliases
    \/ CallSetupCurrentDensityVectorFields
    \/ CallEvaluate
    \/ ReturnEvaluate

Spec == Init /\ [][Next]_vars

(***************************************************************************)
(* The current density on a grid: the arithmetic of _current_density_x,    *)
(* _current_density_y and _current_density_z.  An array is a function on   *)
(* the index triples <<i, j, k>>, counted from 0; a cell of the result is  *)
(* an exact rational <<n, d>>.                                             *)
(***************************************************************************)
\* the longest axis of the grids
MaxDim == 4

Grid(shape) == (0..(shape[1] - 1)) \X (0..(shape[2] - 1)) \X (0..(shape[3] - 1))

Rat(n, d) ==
    LET g == GCD(Abs(n), Abs(d))
        sgn == IF d < 0 THEN -1 ELSE 1
    IN <<sgn * (n \div g), sgn * (d \div g)>>

RatSub(a, b) == Rat(a[1] * b[2] - b[1] * a[2], a[2] * b[2])

RatZero == <<0, 1>>

\* an index of a slice bound, as Python resolves it on an axis of length n
SliceBound(v, n) == IF v < 0 THEN (IF n + v < 0 THEN 0 ELSE n + v)
                    ELSE (IF v > n THEN n ELSE v)

SliceStart(sl, n) == IF sl.start = <<>> THEN 0 ELSE SliceBound(sl.start[1], n)

SliceStop(sl, n) == IF sl.stop = <<>> THEN n ELSE SliceBound(sl.stop[1], n)

SliceLen(sl, n) ==
    IF SliceStop(sl, n) > SliceStart(sl, n) THEN SliceStop(sl, n) - SliceStart(sl, n)
    ELSE 0

Axis(a) == CASE a = "x" -> 1 [] a = "y" -> 2 [] a = "z" -> 3

\* the shapes agree: the two sliced operands of each difference, the two
\* quotients of f -= ..., and new_field[sl_center, sl_center, sl_center] = f
StencilFits(st, shape) ==
    \A m \in 1..3 :
        /\ SliceLen(st.sl_left, shape[m]) = SliceLen(st.sl_right, shape[m])
        /\ SliceLen(st.sl_right, shape[m]) = SliceLen(sl_center, shape[m])

\* (A[.., sl_right, ..] - A[.., sl_left, ..])[o]: the slices sl_right and
\* sl_left on axis u, sl_center on the other two axes
SlicedDifference(A, u, st, shape, o) ==
    LET at(sl) == [m \in 1..3 |->
                      IF m = u THEN SliceStart(sl, shape[m]) + o[m]
                      ELSE SliceStart(sl_center, shape[m]) + o[m]]
    IN A[at(st.sl_right)] - A[at(st.sl_left)]

\* f at offset o of the trimmed array
CurlCell(ax, B, spacing, st, shape, o) ==
    LET t == CurlTerms(ax)
    IN RatSub(Rat(SlicedDifference(B[t[1]], Axis(t[2]), st, shape, o),
                  st.div_fac * spacing[Axis(t[2])]),
              Rat(SlicedDifference(B[t[3]], Axis(t[4]), st, shape, o),
                  st.div_fac * spacing[Axis(t[4])]))

\* a cell of the grid lies in [sl_center, sl_center, sl_center]
InCenter(p, shape) ==
    \A m \in 1..3 :
        /\ p[m] >= SliceStart(sl_center, shape[m])
        /\ p[m] < SliceStop(sl_center, shape[m])

\* new_field = zeros_like(B_z); new_field[sl_center, sl_center, sl_center] = f
NewField(ax, B, spacing, st, shape) ==
    [p \in Grid(shape) |->
        IF InCenter(p, shape)
        THEN CurlCell(ax, B, spacing, st, shape,
                      <<p[1] - SliceStart(sl_center, shape[1]),
                        p[2] - SliceStart(sl_center, shape[2]),
                        p[3] - SliceStart(sl_center, shape[3])>>)
        ELSE RatZero]

\* new_field / j_factors[new_field.units.dimensions]: the cells, and the
\* constant they are divided by
CurrentDensity(ax, in) ==
    LET st == Stencil(in.slice_info)
    IN IF ~StencilFits(st, in.shape)
       THEN [ax |-> ax, status |-> "ValueError", factor |-> "", values |-> <<>>]
       ELSE IF Dimensions(in.units) \notin DOMAIN j_factors
       THEN [ax |-> ax, status |-> "DimensionMismatch", factor |-> "",
             values |-> <<>>]
       ELSE [ax |-> ax, status |-> "ok", factor |-> j_factors[Dimensions(in.units)],
             values |-> NewField(ax, in.B, in.spacing, st, in.shape)]

(***************************************************************************)
(* Inputs of the grid evaluation: each component is constant (axis 0), or  *)
(* linear or quadratic in one coordinate (axis 1..3), offset by the number *)
(* of the component.                                                       *)
(***************************************************************************)
ProfileArray(shape, c, a, power) ==
    [p \in Grid(shape) |->
        IF a = 0 THEN c
        ELSE IF power = 1 THEN c + p[a]
        ELSE c + p[a] * p[a]]

\* every axis is the shortest that has an interior, or the longest
Shapes == {3, MaxDim} \X {3, MaxDim} \X {3, MaxDim}

Spacings == {<<1, 1, 1>>, <<2, 3, 5>>}

CurlUnits == {"gauss", "T", ""}

InitCurl ==
    /\ ds = [geometry |-> "cartesian", axis_order |-> XYZ, unit_system |-> "cgs",
             native |-> [i \in 1..3 |-> MagName("gas", XYZ[i])]]
    /\ registry = PrimitiveRegistry(ds.native, {1, 2, 3}, "gauss")
    /\ called = {}
    /\ last = Call("none", "", "", <<>>, <<>>, registry, "")
    /\ lastEval = NoEval
    /\ threads = NoThreads
    /\ \E shape \in Shapes, a \in (0..3) \X (0..3) \X (0..3), power \in {1, 2},
          spacing \in Spacings, slice_info \in SliceInfos, u \in CurlUnits :
         curlIn = [shape |-> shape,
                   B |-> [x |-> ProfileArray(shape, 1, a[1], power),
                          y |-> ProfileArray(shape, 2, a[2], power),
                          z |-> ProfileArray(shape, 3, a[3], power)],
                   spacing |-> spacing, slice_info |-> slice_info, units |-> u]
    /\ curlOut = NoCurlResult

EvaluateCurrentDensity ==
    /\ curlOut = NoCurlResult
    /\ \E ax \in {"x", "y", "z"} : curlOut' = CurrentDensity(ax, curlIn)
    /\ UNCHANGED <<ds, registry, called, last, lastEval, threads, curlIn>>

ReturnCurrentDensity ==
    /\ curlOut # NoCurlResult
    /\ curlOut' = NoCurlResult
    /\ UNCHANGED <<ds, registry, called, last, lastEval, threads, curlIn>>

NextCurl == EvaluateCurrentDensity \/ ReturnCurrentDensity

SpecCurl == InitCurl /\ [][NextCurl]_vars

(***************************************************************************)
(* Properties.                                                             *)
(***************************************************************************)
Poloidal == <<"gas", "magnetic_field_poloidal">>

Toroidal == <<"gas", "magnetic_field_toroidal">>

SupportedGeometries == {"cartesian", "cylindrical", "spherical"}

\* the names setup_magnetic_field_fields installs
FieldFamily(ftype) ==
    {<<ftype, id>> : id \in {"magnetic_field_strength", "magnetic_energy",
                             "plasma_beta", "magnetic_pressure",
                             "magnetic_field_poloidal", "magnetic_field_toroidal",
                             "alfven_speed", "mach_alfven"}}

\* C1: when (ftype, "magnetic_field_<axis_order[0]>") is absent from the
\* registry, setup_magnetic_field_fields returns without raising and the
\* registry after the call equals the registry before it, whatever else the
\* registry holds and whatever the axis order, geometry and unit system.
FieldsSetupIsNoOpWithoutFirstAxis ==
    (/\ last.op = "setup_magnetic_field_fields"
     /\ ~Has(last.before, MagName(last.ftype, ds.axis_order[1])))
    => (last.raised = "" /\ registry = last.before)

\* the first component is absent while the other two are present, and
\* nothing of the family has been installed
FieldsSetupSkipped ==
    /\ last.op = "setup_magnetic_field_fields"
    /\ ~Has(last.before, MagName(last.ftype, ds.axis_order[1]))
    /\ Has(last.before, MagName(last.ftype, ds.axis_order[2]))
    /\ FieldFamily(last.ftype) \cap DOMAIN registry = {}

\* C2 as stated: in a geometry that is none of cartesian, cylindrical,
\* spherical, once setup_magnetic_field_fields has installed them, the
\* poloidal and toroidal descriptors are present with function None and
\* every evaluation of either fails with UndefinedForGeometry.
UnsupportedGeometryAlwaysUndefined ==
    (ds.geometry \notin SupportedGeometries /\ Has(registry, Poloidal))
    => /\ Has(registry, Toroidal)
       /\ registry[Poloidal].function = NoneFn
       /\ registry[Toroidal].function = NoneFn
       /\ lastEval.name \in {Poloidal, Toroidal}
            => lastEval.result.status = "UndefinedForGeometry"

\* C2, amended: the descriptors are present with function None; evaluating
\* either with "normal" bound fails with UndefinedForGeometry, and with
\* "normal" unbound fails with PreconditionFailed (the validator is checked
\* first); in no context does it fail with NotFound or return a value.
UnsupportedGeometryUndefinedOnceValidated ==
    /\ (/\ last.op = "setup_magnetic_field_fields"
        /\ Has(last.before, MagName(last.ftype, ds.axis_order[1])))
       => Has(registry, Poloidal) /\ Has(registry, Toroidal)
    /\ (ds.geometry \notin SupportedGeometries /\ Has(registry, Poloidal))
       => /\ Has(registry, Toroidal)
          /\ registry[Poloidal].function = NoneFn
          /\ registry[Toroidal].function = NoneFn
          /\ lastEval.name \in {Poloidal, Toroidal}
               => /\ lastEval.result.status =
                        IF "normal" \in lastEval.ctx.parameters
                        THEN "UndefinedForGeometry" ELSE "PreconditionFailed"
                  /\ lastEval.result.value = NoValue

\* a decomposition field evaluated in an unsupported geometry with "normal"
\* bound
UndefinedForGeometryRaised ==
    /\ ds.geometry \notin SupportedGeometries
    /\ lastEval.name = Toroidal
    /\ "normal" \in lastEval.ctx.parameters
    /\ lastEval.result.status = "UndefinedForGeometry"

\* C3: in every geometry the installed poloidal and toroidal descriptors
\* carry the validator ValidateParameter("normal"), and evaluating either
\* where "normal" is not bound fails with PreconditionFailed before the
\* function is invoked (it has requested no field).
DecompositionRequiresNormal ==
    \A name \in {Poloidal, Toroidal} :
        Has(registry, name)
        => /\ registry[name].validators = <<ValidateParameter("normal")>>
           /\ (lastEval.name = name /\ "normal" \notin lastEval.ctx.parameters)
                => /\ lastEval.result.status = "PreconditionFailed"
                   /\ lastEval.result.cause = "ValidateParameter(normal)"
                   /\ lastEval.result.requested = <<>>

\* the precondition fails in a geometry whose formula does not read "normal"
NormalRequiredWhereUnused ==
    /\ ds.geometry = "spherical"
    /\ lastEval.name = Poloidal
    /\ "normal" \notin lastEval.ctx.parameters
    /\ lastEval.result.status = "PreconditionFailed"

Strength == <<"gas", "magnetic_field_strength">>

Energy == <<"gas", "magnetic_energy">>

\* v = 0.5 * B^2 / k
IsHalfSquareOver(v, B, k) ==
    /\ v.n * 2 * B.d * B.d = B.n * B.n * v.d
    /\ v.e = 2 * B.e
    /\ v.kn = "1"
    /\ v.kd = k

\* C5: magnetic_energy is 0.5 * strength^2 / factor, the factor chosen by
\* the dimensions of the strength value just obtained (4*pi for the
\* Gaussian dimension, mu_0 for the SI dimension) and by nothing else; a
\* value of any other dimension makes the evaluation fail with
\* DimensionMismatch, without a value.
EnergyFactorFollowsValueDimension ==
    (lastEval.name = Energy /\ Has(registry, Energy))
    => LET S == Evaluate(registry, ds, Strength, lastEval.ctx)
           r == lastEval.result
       IN S.status = "ok"
          => CASE Dimensions(S.value.units) = "magnetic_field_cgs" ->
                     r.status = "ok" /\ IsHalfSquareOver(r.value, S.value, "4pi")
               [] Dimensions(S.value.units) = "magnetic_field_mks" ->
                     r.status = "ok" /\ IsHalfSquareOver(r.value, S.value, "mu_0")
               [] OTHER ->
                     r.status = "DimensionMismatch" /\ r.value = NoValue

\* a Gaussian field value in a dataset whose unit system is SI: the factor
\* is 4*pi
GaussianEnergyInSIDataset ==
    /\ lastEval.name = Energy
    /\ ds.unit_system = "mks"
    /\ lastEval.result.status = "ok"
    /\ lastEval.result.value.kd = "4pi"
    /\ lastEval.result.value.n > 0

\* the arguments of the last call of setup_magnetic_field_aliases
NativeOf(i) == <<last.ds_ftype, last.ds_fields[i]>>

AliasOf(i) == MagName(last.ftype, ds.axis_order[i])

AliasNames == {AliasOf(i) : i \in 1..3}

\* C6: when the first native field is present, setup_magnetic_field_aliases
\* installs exactly the fields (ftype, "magnetic_field_<ax>"), one per axis
\* of the axis order, and leaves every other entry as it was; the alias of
\* the i-th axis, when evaluated, requests the i-th native field and no
\* other, and returns the conversion of the value that request yields.
\* When the first native field is absent the registry is left as it was.
AliasesWrapNativesByPosition ==
    last.op = "setup_magnetic_field_aliases"
    => /\ last.raised = ""
       /\ IF Has(last.before, NativeOf(1))
          THEN /\ DOMAIN registry = DOMAIN last.before \cup AliasNames
               /\ \A n \in DOMAIN registry \ AliasNames : registry[n] = last.before[n]
               /\ \A i \in 1..3 :
                    /\ registry[AliasOf(i)].function.kind = "_mag_field"
                    /\ lastEval.name = AliasOf(i)
                         => /\ lastEval.result.requested = <<NativeOf(i)>>
                            /\ LET v == Evaluate(registry, ds, NativeOf(i), lastEval.ctx)
                                   c == registry[AliasOf(i)].function.convert
                               IN (v.status = "ok" /\ ~ConvertFails(c, v.value))
                                  => /\ lastEval.result.status = "ok"
                                     /\ lastEval.result.value = Convert(c, v.value)
          ELSE registry = last.before

\* the alias of the second axis has returned the converted second native
\* field, which differs from the first and the third
SecondAliasEvaluated ==
    /\ last.op = "setup_magnetic_field_aliases"
    /\ last.ds_ftype = "enzo"
    /\ lastEval.name = AliasOf(2)
    /\ lastEval.result.status = "ok"
    /\ lastEval.result.requested = <<<<"enzo", "By">>>>
    /\ lastEval.result.value.n = 4

\* C7: the conversion rule of the aliases is fixed when they are installed:
\* the target is the MKS magnetic-field unit, with the equivalence "SI",
\* when the MKS current is a base unit of the unit system, and the CGS unit
\* with "CGS" otherwise; every alias rescales (in_units) when the first
\* native field's dimensions equal the target's and applies the named
\* equivalence otherwise, and each later evaluation applies that rule.
AliasConversionFixedAtInstall ==
    (last.op = "setup_magnetic_field_aliases" /\ Has(last.before, NativeOf(1)))
    => LET from == last.before[NativeOf(1)].units
           to   == IF HasCurrentMks(ds.unit_system) THEN "T" ELSE "gauss"
           eq   == IF HasCurrentMks(ds.unit_system) THEN "SI" ELSE "CGS"
       IN \A i \in 1..3 :
            LET c == registry[AliasOf(i)].function.convert
            IN /\ c.to = to
               /\ IF Dimensions(from) = Dimensions(to)
                  THEN c.mode = "in_units"
                  ELSE c.mode = "to_equivalent" /\ c.equiv = eq
               /\ lastEval.name = AliasOf(i)
                    => LET v == Evaluate(registry, ds, NativeOf(i), lastEval.ctx)
                       IN v.status = "ok"
                          => IF Dimensions(from) = Dimensions(to)
                             THEN /\ lastEval.result.status = "ok"
                                  /\ lastEval.result.value = InUnits(v.value, to)
                             ELSE IF CanConvert(v.value, to, eq)
                             THEN /\ lastEval.result.status = "ok"
                                  /\ lastEval.result.value =
                                        ToEquivalent(v.value, to, eq)
                             ELSE lastEval.result.status = "UnitError"

\* a Gaussian native field aliased in an SI dataset: 4 gauss is 4e-4 T
EquivalenceApplied ==
    /\ last.op = "setup_magnetic_field_aliases"
    /\ ds.unit_system = "mks"
    /\ lastEval.name = AliasOf(2)
    /\ registry[AliasOf(2)].function.convert =
          [mode |-> "to_equivalent", to |-> "T", equiv |-> "SI"]
    /\ lastEval.result.status = "ok"
    /\ lastEval.result.value.units = "T"
    /\ lastEval.result.value.n = 4
    /\ lastEval.result.value.e = -4

CurrentDensityNames(ftype) ==
    {<<ftype, "current_density_x">>, <<ftype, "current_density_y">>,
     <<ftype, "current_density_z">>, <<ftype, "current_density_magnitude">>}

ComponentsAbsent(reg, ftype) == \A j \in 1..3 : ~Has(reg, MagName(ftype, XYZ[j]))

\* C9 as stated: when (ftype, "magnetic_field_x"), (ftype, "magnetic_field_y")
\* and (ftype, "magnetic_field_z") are absent,
\* setup_current_density_vector_fields installs nothing and leaves the
\* registry as it was.
CurrentDensitySkippedWithoutComponents ==
    (/\ last.op = "setup_current_density_vector_fields"
     /\ ComponentsAbsent(last.before, last.ftype))
    => registry = last.before

\* C9, amended: setup_current_density_vector_fields makes no test of its
\* prerequisites: it always installs current_density_x, _y, _z and the
\* magnitude, each with the validator ValidateSpatial(1), and nothing else;
\* when the three components are absent the failure is deferred to the
\* evaluation: PreconditionFailed where no ghost zone is available, NotFound
\* (for the magnitude, PropagatedFailure) otherwise.
CurrentDensityInstalledUnconditionally ==
    last.op = "setup_current_density_vector_fields"
    => /\ last.raised = ""
       /\ DOMAIN registry = DOMAIN last.before \cup CurrentDensityNames(last.ftype)
       /\ \A n \in DOMAIN last.before \ CurrentDensityNames(last.ftype) :
            registry[n] = last.before[n]
       /\ \A n \in CurrentDensityNames(last.ftype) :
            /\ registry[n].validators = <<ValidateSpatial(1)>>
            /\ registry[n].function # NoneFn
            /\ (ComponentsAbsent(registry, last.ftype) /\ lastEval.name = n)
                 => lastEval.result.status =
                       IF lastEval.ctx.ghost_zones < 1 THEN "PreconditionFailed"
                       ELSE IF n[2] = "current_density_magnitude"
                            THEN "PropagatedFailure"
                       ELSE "NotFound"

\* the components are absent, the field is present, and its evaluation has
\* failed for the missing component
CurrentDensityFailsAtEvaluation ==
    /\ last.op = "setup_current_density_vector_fields"
    /\ ComponentsAbsent(last.before, last.ftype)
    /\ lastEval.name = <<"gas", "current_density_x">>
    /\ Has(registry, lastEval.name)
    /\ lastEval.result.status = "NotFound"

\* the fields a descriptor's function requests, found by running it on
\* values of a supported dimension
ProbeValue == Val(1, 1, 0, "gauss", "1", "1", "array")

ProbeContext == [parameters |-> {"normal"}, ghost_zones |-> 1, sample |-> <<1, 1, 1>>]

RECURSIVE RequestsFrom(_, _, _)
RequestsFrom(desc, name, got) ==
    IF desc.function.kind = "None" THEN {}
    ELSE LET step == Body(desc, name, ProbeContext, ds, got)
         IN IF step.op = "get"
            THEN {step.name} \cup RequestsFrom(desc, name, Append(got, ProbeValue))
            ELSE {}

\* the names left after the fields that request nothing among the rest are
\* removed, again and again: empty exactly when no cycle exists
RECURSIVE Cyclic(_, _)
Cyclic(requests, nodes) ==
    LET leaves == {n \in nodes : requests[n] \cap nodes = {}}
    IN IF leaves = {} THEN nodes ELSE Cyclic(requests, nodes \ leaves)

\* the dependency graph of a registry: the requests of each installed field
Requests(reg) == [n \in DOMAIN reg |-> RequestsFrom(reg[n], n, <<>>)]

Acyclic(reg) ==
    LET requests == Requests(reg)
    IN /\ Cyclic(requests, DOMAIN reg) = {}
       /\ \A n \in DOMAIN reg : n \notin requests[n]

\* C10 as stated: for every choice of ftype, ds_ftype, ds_fields, axis
\* order and geometry the dependency graph of the installed fields has no
\* cycle, no field requests its own name (the graph is examined in the
\* states between two evaluations, which every registry goes through), and
\* no evaluation exhausts the call stack.
DependenciesAcyclic ==
    /\ lastEval = NoEval => Acyclic(registry)
    /\ lastEval # NoEval => lastEval.result.status # "StackExhausted"

\* no alias wraps a field that is itself one of the aliases
NoAliasOfAlias(reg) ==
    \A n \in DOMAIN reg :
        reg[n].function.kind = "_mag_field"
        => ~(Has(reg, reg[n].function.fd)
             /\ reg[reg[n].function.fd].function.kind = "_mag_field")

\* C10, amended: the dependency graph is acyclic, no field requests its own
\* name and every evaluation terminates, provided the native fields given
\* to setup_magnetic_field_aliases are not the fields it installs, that is
\* unless ds_ftype = ftype and ds_fields holds "magnetic_field_<ax>" names;
\* an alias installed under the name of the native field it wraps requests
\* itself, and its evaluation exhausts the call stack.
DependenciesAcyclicUnlessAliasWrapsAlias ==
    IF NoAliasOfAlias(registry)
    THEN /\ lastEval = NoEval => Acyclic(registry)
         /\ lastEval # NoEval => lastEval.result.status # "StackExhausted"
    ELSE /\ lastEval = NoEval => ~Acyclic(registry)
         /\ (/\ lastEval # NoEval
             /\ Has(registry, lastEval.name)
             /\ registry[lastEval.name].function.kind = "_mag_field")
               => lastEval.result.status = "StackExhausted"

\* the deepest chain has been evaluated to a value on a registry holding
\* aliases, the magnetic family and the current density
DeepChainEvaluated ==
    /\ called = {"setup_magnetic_field_aliases", "setup_magnetic_field_fields",
                 "setup_current_density_vector_fields"}
    /\ Has(registry, <<"gas", "magnetic_field_x">>)
    /\ registry[<<"gas", "magnetic_field_x">>].function.kind = "_mag_field"
    /\ lastEval.name = <<"gas", "mach_alfven">>
    /\ lastEval.result.status = "ok"

\* a cell with no index on the outermost layer
Interior(p, shape) == \A m \in 1..3 : p[m] > 0 /\ p[m] < shape[m] - 1

Shift(p, m, k) == [p EXCEPT ![m] = @ + k]

\* the two centered differences of a curl component and their spacings:
\* J_x from dBz/dy - dBy/dz, J_y from dBx/dz - dBz/dx, J_z from dBy/dx - dBx/dy
CenteredDifferences(ax, B, d, p) ==
    CASE ax = "x" -> <<B.z[Shift(p, 2, 1)] - B.z[Shift(p, 2, -1)], d[2],
                       B.y[Shift(p, 3, 1)] - B.y[Shift(p, 3, -1)], d[3]>>
      [] ax = "y" -> <<B.x[Shift(p, 3, 1)] - B.x[Shift(p, 3, -1)], d[3],
                       B.z[Shift(p, 1, 1)] - B.z[Shift(p, 1, -1)], d[1]>>
      [] ax = "z" -> <<B.y[Shift(p, 1, 1)] - B.y[Shift(p, 1, -1)], d[1],
                       B.x[Shift(p, 2, 1)] - B.x[Shift(p, 2, -1)], d[2]>>

\* the rational v equals a / (2 du) - b / (2 dv)
IsCenteredCurl(v, c) ==
    /\ v[2] > 0
    /\ v[1] * (4 * c[2] * c[4]) = v[2] * (c[1] * 2 * c[4] - c[3] * 2 * c[2])

Uniform(A, shape) == \A p \in Grid(shape) : A[p] = A[<<0, 0, 0>>]

\* C4: for three components of equal shape, every dimension at least 3,
\* and the default stencil, current_density_<ax> has the shape of the input,
\* is exactly zero on the outermost layer, and at every interior cell is
\* the centered-difference curl component, over the Ampere factor of the
\* field's dimensions; a spatially constant input gives zero everywhere.
CurrentDensityIsCenteredCurl ==
    (/\ curlOut # NoCurlResult
     /\ curlIn.slice_info = <<>>
     /\ Dimensions(curlIn.units) \in {"magnetic_field_cgs", "magnetic_field_mks"})
    => /\ curlOut.status = "ok"
       /\ curlOut.factor = IF Dimensions(curlIn.units) = "magnetic_field_cgs"
                           THEN "4pi/c" ELSE "mu_0"
       /\ DOMAIN curlOut.values = Grid(curlIn.shape)
       /\ \A p \in Grid(curlIn.shape) :
            IF Interior(p, curlIn.shape)
            THEN IsCenteredCurl(curlOut.values[p],
                                CenteredDifferences(curlOut.ax, curlIn.B,
                                                    curlIn.spacing, p))
            ELSE curlOut.values[p] = RatZero
       /\ (\A b \in {"x", "y", "z"} : Uniform(curlIn.B[b], curlIn.shape))
            => \A p \in Grid(curlIn.shape) : curlOut.values[p] = RatZero

\* a grid with more than one interior cell along x, unequal spacings, and a
\* component of the curl that varies over the interior
CurlOfVaryingField ==
    /\ curlOut # NoCurlResult
    /\ curlOut.status = "ok"
    /\ curlOut.ax = "y"
    /\ curlIn.slice_info = <<>>
    /\ curlIn.shape[1] = MaxDim
    /\ curlIn.spacing = <<2, 3, 5>>
    /\ \E p, q \in Grid(curlIn.shape) :
          /\ Interior(p, curlIn.shape)
          /\ Interior(q, curlIn.shape)
          /\ curlOut.values[p][1] # 0
          /\ curlOut.values[p] # curlOut.values[q]

(***************************************************************************)
(* Concurrent evaluations on a populated registry.  Each thread holds the  *)
(* call stack of one evaluation; a step runs the function on top of the    *)
(* stack up to its next request, its return or its failure, so requests of *)
(* different threads interleave at every nested evaluation.                *)
(***************************************************************************)
Threads == {1, 2}

Frame(name, desc) == [name |-> name, desc |-> desc, got |-> <<>>, requested |-> <<>>]

Idle == [state |-> "idle", name |-> NoName, ctx |-> NoContext, stack |-> <<>>,
         result |-> NoOutcome]

Running(name, ctx, stack) ==
    [state |-> "running", name |-> name, ctx |-> ctx, stack |-> stack,
     result |-> NoOutcome]

Done(name, ctx, r) ==
    [state |-> "done", name |-> name, ctx |-> ctx, stack |-> <<>>,
     result |-> Outcome(r)]

\* a failure of the evaluation of `name` reaches the caller through every
\* function on the stack
RECURSIVE Unwind(_, _, _)
Unwind(stack, name, r) ==
    IF stack = <<>> THEN r
    ELSE LET top == stack[Len(stack)]
         IN Unwind(SubSeq(stack, 1, Len(stack) - 1), top.name,
                   Propagated(name, r, top.requested))

\* the registry after the three setup routines, in the order a dataset
\* runs them
Populated(reg, dsv) ==
    LET aliased == setup_magnetic_field_aliases(reg, dsv, "enzo", FrontendFields,
                                                "gas").reg
        fields  == setup_magnetic_field_fields(aliased, dsv, "gas").reg
    IN setup_current_density_vector_fields(fields, dsv, "gas", <<>>).reg

ConcTargets ==
    {<<"gas", "mach_alfven">>, <<"gas", "magnetic_pressure">>,
     <<"gas", "magnetic_field_toroidal">>, <<"gas", "current_density_magnitude">>}

ConcContexts == {c \in Contexts : c.ghost_zones = 1}

InitConc ==
    /\ \E c \in Coordinates :
         /\ ds = [geometry |-> c.geometry, axis_order |-> c.axis_order,
                  unit_system |-> "mks",
                  native |-> [i \in 1..3 |-> <<"enzo", FrontendFields[i]>>]]
         /\ registry = Populated(PrimitiveRegistry(ds.native, {1, 2, 3}, "gauss"), ds)
    /\ called = {"setup_magnetic_field_aliases", "setup_magnetic_field_fields",
                 "setup_current_density_vector_fields"}
    /\ last = Call("setup_current_density_vector_fields", "gas", "", <<>>, <<>>,
                   registry, "")
    /\ lastEval = NoEval
    /\ threads = [t \in Threads |-> Idle]
    /\ curlIn = NoCurl
    /\ curlOut = NoCurlResult

\* evaluate(name, context) is entered: the checks, then the function is
\* invoked
BeginEvaluate(t) ==
    /\ threads[t].state = "idle"
    /\ \E name \in ConcTargets, ctx \in ConcContexts :
         IF Enter(registry, name, ctx) # "ok"
         THEN /\ threads' = [threads EXCEPT ![t] =
                    Done(name, ctx, Failure(Enter(registry, name, ctx),
                                            EnterCause(registry, name, ctx), <<>>,
                                            registry))]
              /\ UNCHANGED registry
         ELSE /\ threads' = [threads EXCEPT ![t] =
                    Running(name, ctx, <<Frame(name, registry[name])>>)]
              /\ registry' = ApplyWrites(registry,
                                         RegistryWrites(registry[name].function))
    /\ UNCHANGED <<ds, called, last, lastEval, curlIn, curlOut>>

\* the function on top of the stack runs to its next request, its return
\* or its failure
StepEvaluate(t) ==
    /\ threads[t].state = "running"
    /\ LET th    == threads[t]
           depth == Len(th.stack)
           top   == th.stack[depth]
           below == SubSeq(th.stack, 1, depth - 1)
           step  == Body(top.desc, top.name, th.ctx, ds, top.got)
           asked == Append(below, [top EXCEPT !.requested = Append(@, step.name)])
       IN CASE step.op = "return" ->
                 /\ threads' = [threads EXCEPT ![t] =
                       IF depth = 1
                       THEN Done(th.name, th.ctx,
                                 Result("ok", step.value, "", top.requested, registry))
                       ELSE Running(th.name, th.ctx,
                               [below EXCEPT ![depth - 1].got = Append(@, step.value)])]
                 /\ UNCHANGED registry
            [] step.op = "raise" ->
                 /\ threads' = [threads EXCEPT ![t] =
                       Done(th.name, th.ctx,
                            Unwind(below, top.name,
                                   Failure(step.status, "", top.requested, registry)))]
                 /\ UNCHANGED registry
            [] step.op = "get" ->
                 IF depth + 1 > MaxDepth
                 THEN /\ threads' = [threads EXCEPT ![t] =
                            Done(th.name, th.ctx,
                                 Unwind(asked, step.name,
                                        Failure("StackExhausted", "", <<>>, registry)))]
                      /\ UNCHANGED registry
                 ELSE IF Enter(registry, step.name, th.ctx) # "ok"
                 THEN /\ threads' = [threads EXCEPT ![t] =
                            Done(th.name, th.ctx,
                                 Unwind(asked, step.name,
                                        Failure(Enter(registry, step.name, th.ctx),
                                                EnterCause(registry, step.name, th.ctx),
                                                <<>>, registry)))]
                      /\ UNCHANGED registry
                 ELSE /\ threads' = [threads EXCEPT ![t] =
                            Running(th.name, th.ctx,
                                    Append(asked, Frame(step.name, registry[step.name])))]
                      /\ registry' =
                            ApplyWrites(registry,
                                        RegistryWrites(registry[step.name].function))
    /\ UNCHANGED <<ds, called, last, lastEval, curlIn, curlOut>>

\* the caller takes the result
TakeResult(t) ==
    /\ threads[t].state = "done"
    /\ threads' = [threads EXCEPT ![t] = Idle]
    /\ UNCHANGED <<ds, registry, called, last, lastEval, curlIn, curlOut>>

NextConc == \E t \in Threads : BeginEvaluate(t) \/ StepEvaluate(t) \/ TakeResult(t)

SpecConc == InitConc /\ [][NextConc]_vars

\* C8: evaluation never changes the registry: whatever the interleaving of
\* the concurrent evaluations and of the evaluations nested in them, the
\* mapping from names to descriptors is the one the setup routines left,
\* and each evaluation returns what it returns when run alone on it.
EvaluationLeavesRegistryAlone ==
    /\ registry = last.before
    /\ \A t \in DOMAIN threads :
          threads[t].state = "done"
          => threads[t].result =
                Outcome(Evaluate(last.before, ds, threads[t].name, threads[t].ctx))

\* one evaluation has returned a value while another is inside a nested
\* request of a different field
FinishedBesideNested ==
    /\ threads # NoThreads
    /\ threads[1].state = "done"
    /\ threads[1].result.status = "ok"
    /\ threads[2].state = "running"
    /\ Len(threads[2].stack) >= 3
    /\ threads[2].name # threads[1].name

====
